---------------------------- MODULE Spec2Model ----------------------------
(***************************************************************************)
(* Expiring web cache with per-URL call counting (0x02-redis_basic/web.py) *)
(*                                                                         *)
(* The program keeps no state of its own: everything lives in the Redis    *)
(* server behind the module-level client r.  The model holds that server's *)
(* keyspace (byte-string values with an optional time to live), the        *)
(* position of every caller inside get_page, and the outcome of the call   *)
(* the latest step ended.  History variables (marked as such) record what  *)
(* the properties below speak about and are never read by an operation.    *)
(***************************************************************************)
EXTENDS Integers, Sequences, FiniteSets, TLC

(***************************************************************************)
(* Bounds of the model.                                                    *)
(***************************************************************************)
\* number of get_page invocations explored in one behaviour
MaxCalls == 3

\* the callers that may be inside get_page at the same time
Procs == {1, 2}

(***************************************************************************)
(* Program constants.                                                      *)
(***************************************************************************)
\* r.setex(cache_key, 10, html_content)
TTL == 10
\* Redis reports a key without expiry with a time to live of -1
NoExpiry == -1

\* the URLs the callers pass, and the pages the network may serve for each
\* (texts are sequences of Unicode code points: "a", U+00E9, "b", and the
\* empty page, which the first server may also answer with)
URLs == {"http://a.test", "http://b.test"}
Pages == ("http://a.test" :> {<<>>, <<97>>, <<233>>}) @@
         ("http://b.test" :> {<<98>>})
\* the lapses of time (seconds) observed between two steps: they sample an
\* entry in the middle of its life, one second before its end, and at its end
TimeSteps == {5, 9}
\* what the server may answer a GET of u with: any of its pages with status
\* 200, or a server error carrying a page
Responses(u) ==
    [status : {200}, text : Pages[u]] \cup
    [status : {500}, text : {CHOOSE t \in Pages[u] : t # <<>>}]

(***************************************************************************)
(* Text <-> bytes: str.encode / bytes.decode('utf-8'), int <-> decimal.    *)
(***************************************************************************)
RECURSIVE Utf8Encode(_)
Utf8Encode(text) ==
    IF text = <<>> THEN <<>>
    ELSE LET c == Head(text)
             enc == IF c < 128 THEN <<c>>
                    ELSE IF c < 2048
                         THEN <<192 + (c \div 64), 128 + (c % 64)>>
                         ELSE <<224 + (c \div 4096),
                                128 + ((c \div 64) % 64),
                                128 + (c % 64)>>
         IN  enc \o Utf8Encode(Tail(text))

IsCont(b) == b >= 128 /\ b < 192

RECURSIVE WellFormed(_)
WellFormed(bytes) ==
    IF bytes = <<>> THEN TRUE
    ELSE LET b == Head(bytes) IN
         IF b < 128 THEN WellFormed(Tail(bytes))
         ELSE IF b >= 194 /\ b < 224
              THEN /\ Len(bytes) >= 2
                   /\ IsCont(bytes[2])
                   /\ WellFormed(SubSeq(bytes, 3, Len(bytes)))
         ELSE IF b >= 224 /\ b < 240
              THEN /\ Len(bytes) >= 3
                   /\ IsCont(bytes[2])
                   /\ IsCont(bytes[3])
                   /\ WellFormed(SubSeq(bytes, 4, Len(bytes)))
         ELSE FALSE

\* (variant: every byte is taken for one character, as latin-1 does)
Latin1Decode(bytes) == bytes

\* bytes.decode('utf-8') of well-formed bytes
RECURSIVE Utf8Decode(_)
Utf8Decode(bytes) ==
    IF bytes = <<>> THEN <<>>
    ELSE LET b == Head(bytes) IN
         IF b < 128 THEN <<b>> \o Utf8Decode(Tail(bytes))
         ELSE IF b < 224
              THEN <<(b - 192) * 64 + (bytes[2] - 128)>>
                   \o Utf8Decode(SubSeq(bytes, 3, Len(bytes)))
              ELSE <<(b - 224) * 4096 + (bytes[2] - 128) * 64 + (bytes[3] - 128)>>
                   \o Utf8Decode(SubSeq(bytes, 4, Len(bytes)))

\* decimal ASCII of a non-negative integer, as Redis stores a counter
RECURSIVE IntToBytes(_)
IntToBytes(n) ==
    IF n < 10 THEN <<48 + n>>
    ELSE IntToBytes(n \div 10) \o <<48 + (n % 10)>>

IsIntBytes(bytes) ==
    /\ bytes # <<>>
    /\ \A i \in 1..Len(bytes) : bytes[i] >= 48 /\ bytes[i] <= 57

\* int(count)
RECURSIVE BytesToInt(_)
BytesToInt(bytes) ==
    IF bytes = <<>> THEN 0
    ELSE 10 * BytesToInt(SubSeq(bytes, 1, Len(bytes) - 1))
         + (bytes[Len(bytes)] - 48)

(***************************************************************************)
(* The Redis keyspace: key -> [val: bytes, ttl: remaining seconds].        *)
(***************************************************************************)
\* (variant: every url is cached under one key)
CacheKeyShared(url) == "cache:"

\* f"cache:{url}"
CacheKey(url) == "cache:" \o url
\* (variant: the url is left out of the key)
CountKeyShared(url) == "count:"

\* f"count:{url}"
CountKey(url) == "count:" \o url

\* GET key: <<>> when the key is absent (None), <<bytes>> when present
RedisGet(s, k) == IF k \in DOMAIN s THEN <<s[k].val>> ELSE <<>>

\* (variant: the counter is set to 1 instead of incremented)
RedisIncrSet(s, k) ==
    (k :> [val |-> IntToBytes(1), ttl |-> NoExpiry]) @@ s

\* (variant: a counter is created with the expiry of a cache entry)
RedisIncrExpiring(s, k) ==
    IF k \in DOMAIN s
    THEN [s EXCEPT ![k].val = IntToBytes(BytesToInt(@) + 1)]
    ELSE (k :> [val |-> IntToBytes(1), ttl |-> TTL]) @@ s

\* INCR key: an absent key counts from 0; an existing key keeps its expiry
RedisIncr(s, k) ==
    IF k \in DOMAIN s
    THEN [s EXCEPT ![k].val = IntToBytes(BytesToInt(@) + 1)]
    ELSE (k :> [val |-> IntToBytes(1), ttl |-> NoExpiry]) @@ s

\* INCR answers with an error when the value is not an integer
IncrServed(s, k) == k \in DOMAIN s => IsIntBytes(s[k].val)

\* (variant: the value is stored without an expiry, as SET does)
RedisSetNoExpiry(s, k, seconds, bytes) ==
    (k :> [val |-> bytes, ttl |-> NoExpiry]) @@ s

\* (variant: a key that is present is left alone, as SET with NX does)
RedisSetexKeepExisting(s, k, seconds, bytes) ==
    IF k \in DOMAIN s THEN s
    ELSE (k :> [val |-> bytes, ttl |-> seconds]) @@ s

\* SETEX key seconds value
RedisSetex(s, k, seconds, bytes) ==
    (k :> [val |-> bytes, ttl |-> seconds]) @@ s

\* (variant: the key is left in place)
RedisDeleteNothing(s, k) == s

\* DEL key
RedisDelete(s, k) == [j \in DOMAIN s \ {k} |-> s[j]]

\* (variant: a key is still served at the very second its time is up)
RedisExpireLate(s, d) ==
    LET keep == {k \in DOMAIN s : s[k].ttl = NoExpiry \/ s[k].ttl >= d}
    IN  [k \in keep |-> IF s[k].ttl = NoExpiry THEN s[k]
                        ELSE [s[k] EXCEPT !.ttl = @ - d]]

\* d seconds pass: a key with an expiry loses them and is gone once none is left
RedisExpire(s, d) ==
    LET keep == {k \in DOMAIN s : s[k].ttl = NoExpiry \/ s[k].ttl > d}
    IN  [k \in keep |-> IF s[k].ttl = NoExpiry THEN s[k]
                        ELSE [s[k] EXCEPT !.ttl = @ - d]]

\* the value and the seconds left of key k (NoEntry for a key that is absent)
NoEntry == [val |-> <<>>, ttl |-> 0]
EntryAt(s, k) == IF k \in DOMAIN s THEN s[k] ELSE NoEntry

\* Python truth of the answer of r.get: None and b"" are both false
Truthy(got) == got # <<>> /\ got[1] # <<>>

(***************************************************************************)
(* State.                                                                  *)
(***************************************************************************)
VARIABLES
    store,    \* the Redis keyspace behind r
    pc,       \* where each caller stands inside get_page ("idle": outside)
    arg,      \* the url each caller passed
    resp,     \* each caller's response object (status, text) of requests.get
    last,     \* outcome of the get_page call the latest step ended, if any
    log,      \* history: store and network operations a running call attempted
    ncalls,   \* get_page invocations so far (bounded by MaxCalls)
    invoked,  \* history: URLs get_page was ever invoked with
    since,    \* history: per URL, calls finished since its last reset
    wiped,    \* history: per URL, what its last reset removed (-1: no reset)
    stale,    \* history: callers whose increment a reset has removed
    written,  \* history: per URL, the last cache write and the time since
              \* (followed until the TTL has elapsed)
    replaced  \* history: the entry that the cache write of the latest step
              \* replaced (NoEntry: no write, or it replaced none)

vars == <<store, pc, arg, resp, last, log, ncalls, invoked, since, wiped,
          stale, written, replaced>>

NoResp == [status |-> 0, text |-> <<>>]
NoWrite == [set |-> FALSE, body |-> <<>>, age |-> 0]

\* the outcome record of a finished call
Outcome(op, url, kind, body, count, status, lg) ==
    [op |-> op, url |-> url, kind |-> kind, body |-> body, count |-> count,
     status |-> status, log |-> lg]

\* a step that ends no call delivers nothing
Quiet == Outcome("none", "", "none", <<>>, 0, 0, <<>>)

\* (variant: get_page is left undecorated)
EntryUndecorated == "lookup"

\* where a call of get_page starts: the decorator's wrapper runs first
EntryPoint == "incr"

Init ==
    /\ store = <<>>
    /\ pc = [p \in Procs |-> "idle"]
    /\ arg = [p \in Procs |-> ""]
    /\ resp = [p \in Procs |-> NoResp]
    /\ last = Quiet
    /\ log = [p \in Procs |-> <<>>]
    /\ ncalls = 0
    /\ invoked = {}
    /\ since = [u \in URLs |-> 0]
    /\ wiped = [u \in URLs |-> -1]
    /\ stale = [p \in Procs |-> FALSE]
    /\ written = [u \in URLs |-> NoWrite]
    /\ replaced = NoEntry

(***************************************************************************)
(* get_page(url), one step per store or network operation.                 *)
(***************************************************************************)
\* a call ends (return or raise): the caller is outside get_page again
Finish(p, kind, body, status, lg, counted) ==
    /\ pc' = [pc EXCEPT ![p] = "idle"]
    /\ arg' = [arg EXCEPT ![p] = ""]
    /\ resp' = [resp EXCEPT ![p] = NoResp]
    /\ log' = [log EXCEPT ![p] = <<>>]
    /\ stale' = [stale EXCEPT ![p] = FALSE]
    /\ last' = Outcome("get_page", arg[p], kind, body, 0, status, lg)
    /\ since' = IF counted /\ ~stale[p]
                THEN [since EXCEPT ![arg[p]] = @ + 1]
                ELSE since

\* a caller invokes get_page(u)
CallFetch(p, u) ==
    /\ pc[p] = "idle"
    /\ ncalls < MaxCalls
    /\ pc' = [pc EXCEPT ![p] = EntryPoint]
    /\ arg' = [arg EXCEPT ![p] = u]
    /\ ncalls' = ncalls + 1
    /\ invoked' = invoked \cup {u}
    /\ last' = Quiet
    /\ replaced' = NoEntry
    /\ UNCHANGED <<store, resp, log, since, wiped, stale, written>>

\* (variant: the wrapper reads the counter in one command and writes the
\* read value plus one back in a second one)
WrapperIncrRacy(p) ==
    /\ pc[p] = "incr"
    /\ LET key == CountKey(arg[p])
           lg == Append(log[p], "incr")
           seen == IF key \in DOMAIN store
                   THEN BytesToInt(store[key].val) ELSE 0
       IN  IF resp[p] = NoResp
           THEN /\ resp' = [resp EXCEPT ![p] =
                                [status |-> seen + 1, text |-> <<>>]]
                /\ UNCHANGED <<store, pc, log>>
           ELSE /\ store' = (key :> [val |-> IntToBytes(resp[p].status),
                                     ttl |-> NoExpiry]) @@ store
                /\ resp' = [resp EXCEPT ![p] = NoResp]
                /\ pc' = [pc EXCEPT ![p] = "lookup"]
                /\ log' = [log EXCEPT ![p] = lg]
    /\ last' = Quiet
    /\ replaced' = NoEntry
    /\ UNCHANGED <<arg, since, stale, ncalls, invoked, wiped, written>>

\* wrapper: count = r.incr(key)
WrapperIncr(p) ==
    /\ pc[p] = "incr"
    /\ LET key == CountKey(arg[p])
           lg == Append(log[p], "incr")
       IN  \E served \in BOOLEAN :
             IF served /\ IncrServed(store, key)
             THEN /\ store' = RedisIncr(store, key)
                  /\ pc' = [pc EXCEPT ![p] = "lookup"]
                  /\ log' = [log EXCEPT ![p] = lg]
                  /\ last' = Quiet
                  /\ UNCHANGED <<arg, resp, since, stale>>
             ELSE /\ Finish(p, "StoreError", <<>>, 0, lg, FALSE)
                  /\ UNCHANGED store
    /\ replaced' = NoEntry
    /\ UNCHANGED <<ncalls, invoked, wiped, written>>

\* (variant: a hit starts the expiry of the entry anew, as GETEX does)
LookupRefreshing(p) ==
    /\ pc[p] = "lookup"
    /\ LET cache_key == CacheKey(arg[p])
           cached_content == RedisGet(store, cache_key)
           lg == Append(log[p], "get")
       IN  \E served \in BOOLEAN :
             IF ~served
             THEN /\ Finish(p, "StoreError", <<>>, 0, lg, TRUE)
                  /\ UNCHANGED store
             ELSE IF Truthy(cached_content)
             THEN /\ store' = [store EXCEPT ![cache_key].ttl = TTL]
                  /\ IF WellFormed(cached_content[1])
                     THEN Finish(p, "return", Utf8Decode(cached_content[1]),
                                 0, lg, TRUE)
                     ELSE Finish(p, "DecodeError", <<>>, 0, lg, TRUE)
             ELSE /\ pc' = [pc EXCEPT ![p] = "http"]
                  /\ log' = [log EXCEPT ![p] = lg]
                  /\ last' = Quiet
                  /\ UNCHANGED <<store, arg, resp, since, stale>>
    /\ replaced' = NoEntry
    /\ UNCHANGED <<ncalls, invoked, wiped, written>>

\* cached_content = r.get(cache_key); if cached_content: return its text
Lookup(p) ==
    /\ pc[p] = "lookup"
    /\ LET cached_content == RedisGet(store, CacheKey(arg[p]))
           lg == Append(log[p], "get")
       IN  \E served \in BOOLEAN :
             IF ~served
             THEN Finish(p, "StoreError", <<>>, 0, lg, TRUE)
             ELSE IF Truthy(cached_content)
             THEN IF WellFormed(cached_content[1])
                  THEN Finish(p, "return", Utf8Decode(cached_content[1]),
                              0, lg, TRUE)
                  ELSE Finish(p, "DecodeError", <<>>, 0, lg, TRUE)
             ELSE /\ pc' = [pc EXCEPT ![p] = "http"]
                  /\ log' = [log EXCEPT ![p] = lg]
                  /\ last' = Quiet
                  /\ UNCHANGED <<arg, resp, since, stale>>
    /\ replaced' = NoEntry
    /\ UNCHANGED <<store, ncalls, invoked, wiped, written>>

\* (variant: a failed GET is answered by caching an empty page)
HttpGetCachesFailure(p) ==
    /\ pc[p] = "http"
    /\ LET lg == Append(log[p], "GET")
       IN  \/ /\ Finish(p, "FetchError", <<>>, 0, lg, TRUE)
              /\ store' = RedisSetex(store, CacheKey(arg[p]), TTL, <<>>)
           \/ \E response \in Responses(arg[p]) :
                /\ resp' = [resp EXCEPT ![p] = response]
                /\ pc' = [pc EXCEPT ![p] = "setex"]
                /\ log' = [log EXCEPT ![p] = lg]
                /\ last' = Quiet
                /\ UNCHANGED <<store, arg, since, stale>>
    /\ replaced' = NoEntry
    /\ UNCHANGED <<ncalls, invoked, wiped, written>>

\* response = requests.get(url); html_content = response.text
HttpGet(p) ==
    /\ pc[p] = "http"
    /\ LET lg == Append(log[p], "GET")
       IN  \/ Finish(p, "FetchError", <<>>, 0, lg, TRUE)
           \/ \E response \in Responses(arg[p]) :
                /\ resp' = [resp EXCEPT ![p] = response]
                /\ pc' = [pc EXCEPT ![p] = "setex"]
                /\ log' = [log EXCEPT ![p] = lg]
                /\ last' = Quiet
                /\ UNCHANGED <<arg, since, stale>>
    /\ replaced' = NoEntry
    /\ UNCHANGED <<store, ncalls, invoked, wiped, written>>

\* r.setex(cache_key, 10, html_content); return html_content
Setex(p) ==
    /\ pc[p] = "setex"
    /\ LET html_content == resp[p].text
           lg == Append(log[p], "setex")
       IN  \E served \in BOOLEAN :
             IF served
             THEN /\ store' = RedisSetex(store, CacheKey(arg[p]), TTL,
                                         Utf8Encode(html_content))
                  /\ written' = [written EXCEPT ![arg[p]] =
                        [set |-> TRUE, body |-> html_content, age |-> 0]]
                  /\ replaced' = EntryAt(store, CacheKey(arg[p]))
                  /\ Finish(p, "return", html_content, resp[p].status, lg, TRUE)
             ELSE /\ Finish(p, "StoreError", <<>>, resp[p].status, lg, TRUE)
                  /\ replaced' = NoEntry
                  /\ UNCHANGED <<store, written>>
    /\ UNCHANGED <<ncalls, invoked, wiped>>

(***************************************************************************)
(* get_count(url) and reset_count(url): one store command each.  A command *)
(* the server does not answer raises out of the function before anything   *)
(* has changed: that call is a stuttering step.                            *)
(***************************************************************************)
\* int(count) if count else 0
CountOf(got) == IF Truthy(got) THEN BytesToInt(got[1]) ELSE 0

\* what get_count(u) returns when the keyspace is s
GetCountReturn(s, u) ==
    LET count == RedisGet(s, CountKey(u))
    IN  CountOf(count)

\* get_count(u) reads one key and returns; nothing is written
GetCount(u) ==
    /\ GetCountReturn(store, u) \in Nat
    /\ UNCHANGED vars

\* history: what a reset removed, as far as the properties tell it apart
\* (0: a count below two, or no counter at all; 2: a count of two or more)
Removed(n) == IF n >= 2 THEN 2 ELSE 0

\* (variant: the counter is overwritten with 0 instead of deleted)
ResetCountToZero(u) ==
    /\ store' = (CountKey(u) :> [val |-> IntToBytes(0), ttl |-> NoExpiry])
                 @@ store
    /\ last' = Quiet
    /\ wiped' = [wiped EXCEPT ![u] = Removed(GetCountReturn(store, u))]
    /\ since' = [since EXCEPT ![u] = 0]
    /\ stale' = [p \in Procs |->
                    \/ stale[p]
                    \/ (arg[p] = u /\ pc[p] \in {"lookup", "http", "setex"})]
    /\ replaced' = NoEntry
    /\ UNCHANGED <<pc, arg, resp, log, ncalls, invoked, written>>

\* r.delete(f"count:{url}")
ResetCount(u) ==
    /\ store' = RedisDelete(store, CountKey(u))
    /\ last' = Quiet
    /\ wiped' = [wiped EXCEPT ![u] = Removed(GetCountReturn(store, u))]
    /\ since' = [since EXCEPT ![u] = 0]
    /\ stale' = [p \in Procs |->
                    \/ stale[p]
                    \/ (arg[p] = u /\ pc[p] \in {"lookup", "http", "setex"})]
    /\ replaced' = NoEntry
    /\ UNCHANGED <<pc, arg, resp, log, ncalls, invoked, written>>

(***************************************************************************)
(* Time: d seconds pass on the server between two steps.                   *)
(***************************************************************************)
Min(a, b) == IF a < b THEN a ELSE b

Tick(d) ==
    /\ store' = RedisExpire(store, d)
    /\ written' = [u \in URLs |->
                     IF written[u].set
                     THEN [written[u] EXCEPT !.age = Min(@ + d, TTL)]
                     ELSE written[u]]
    /\ last' = Quiet
    /\ replaced' = NoEntry
    /\ UNCHANGED <<pc, arg, resp, log, ncalls, invoked, since, wiped, stale>>

Next ==
    \/ \E p \in Procs, u \in URLs : CallFetch(p, u)
    \/ \E p \in Procs : WrapperIncr(p)
    \/ \E p \in Procs : Lookup(p)
    \/ \E p \in Procs : HttpGet(p)
    \/ \E p \in Procs : Setex(p)
    \/ \E u \in URLs : GetCount(u)
    \/ \E u \in URLs : ResetCount(u)
    \/ \E d \in TimeSteps : Tick(d)

Spec == Init /\ [][Next]_vars

(***************************************************************************)
(* Properties.                                                             *)
(***************************************************************************)
A == "http://a.test"
B == "http://b.test"

\* the callers inside get_page(u)
InFlight(u) == {p \in Procs : pc[p] # "idle" /\ arg[p] = u}

\* the step of caller p ends its call (return or raise)
Ends(p) == pc[p] # "idle" /\ pc'[p] = "idle"

\* the operation did (or tried) a network GET
Fetched(lg) == \E i \in 1..Len(lg) : lg[i] = "GET"

\* C1: starting from a URL that was never reset, once N calls of
\* get_page(u) have finished (hits, misses and calls that failed after the
\* increment alike; a call the store refused at the increment itself never
\* reached the counter and is not among them) and none is running,
\* get_count(u) returns N.
C1_CountIsNumberOfCalls ==
    \A u \in URLs :
        (wiped[u] = -1 /\ InFlight(u) = {})
            => GetCountReturn(store, u) = since[u]

\* three calls of get_page(A) are over, the last one a hit served from the
\* entry an earlier miss wrote, and get_count(A) is 3
C1_Witness ==
    /\ wiped[A] = -1 /\ InFlight(A) = {}
    /\ since[A] = 3 /\ GetCountReturn(store, A) = 3
    /\ last.op = "get_page" /\ last.url = A /\ last.kind = "return"
    /\ ~Fetched(last.log)
    /\ written[A].set

\* C5: for every URL get_page was never invoked with since the store was
\* empty, get_count returns 0.
C5_NeverFetchedCountsZero ==
    \A u \in URLs \ invoked : GetCountReturn(store, u) = 0

\* B was never fetched while A has been counted twice and is cached
C5_Witness ==
    /\ B \notin invoked
    /\ GetCountReturn(store, A) = 2
    /\ CacheKey(A) \in DOMAIN store

\* C6: reset_count(u) removes the key count:<u>, so that get_count(u) right
\* after returns 0 whatever the counter was; on a URL without a counter it
\* leaves the store as it is.
C6_ResetRemovesCounter ==
    [][\A u \in URLs :
          ResetCount(u) =>
              /\ CountKey(u) \notin DOMAIN store'
              /\ GetCountReturn(store', u) = 0
              /\ (CountKey(u) \notin DOMAIN store => store' = store)]_vars

\* a reset has removed a counter of 2 or more, and the other URL, never
\* fetched, has been reset too; both read 0
C6_Witness ==
    \E u, v \in URLs :
        /\ wiped[u] >= 2 /\ wiped[v] = 0 /\ v \notin invoked
        /\ since[u] = 0 /\ GetCountReturn(store, u) = 0
        /\ GetCountReturn(store, v) = 0

\* C7: after reset_count(u) counting restarts: once k calls of get_page(u)
\* made after the reset have finished and none is running, get_count(u)
\* returns k, however many calls came before the reset.
C7_CountRestartsAfterReset ==
    \A u \in URLs :
        (wiped[u] >= 0 /\ InFlight(u) = {})
            => GetCountReturn(store, u) = since[u]

\* a reset removed a counter of 2 or more, one call has finished since, and
\* get_count reads 1
C7_Witness ==
    \E u \in URLs :
        /\ wiped[u] >= 2 /\ InFlight(u) = {}
        /\ since[u] = 1 /\ GetCountReturn(store, u) = 1

\* the step of caller p is a cache lookup the store answered
LookupAnswered(p) ==
    /\ pc[p] = "lookup"
    /\ pc'[p] # "lookup"
    /\ ~(pc'[p] = "idle" /\ last'.kind = "StoreError")

\* C2: once a miss has written the entry of u, a get_page(u) that looks the
\* cache up before the TTL has elapsed returns the body that was written
\* and makes no network call -- for every body the network can return.
C2_HitWithinTTL ==
    [][\A p \in Procs :
          (/\ LookupAnswered(p)
           /\ written[arg[p]].set
           /\ written[arg[p]].age < TTL)
          => /\ pc'[p] = "idle"
             /\ last'.kind = "return"
             /\ last'.body = written[arg[p]].body
             /\ ~Fetched(last'.log)]_vars

\* C3: when the entry a miss wrote for u has outlived its TTL, the next
\* lookup of get_page(u) misses: the call goes on to the network, and when
\* it returns it returns the text just fetched and has written it as the
\* new entry of u, with a full TTL.
C3_MissAfterExpiry ==
    [][\A p \in Procs :
          /\ (/\ LookupAnswered(p)
              /\ written[arg[p]].set
              /\ written[arg[p]].age >= TTL)
             => (pc'[p] = "http" /\ arg'[p] = arg[p])
          /\ (pc[p] = "http" /\ pc'[p] = "setex")
             => (Fetched(log'[p]) /\ resp'[p] \in Responses(arg[p]))
          /\ (pc[p] = "setex" /\ Ends(p) /\ last'.kind = "return")
             => /\ Fetched(last'.log)
                /\ last'.body = resp[p].text
                /\ CacheKey(arg[p]) \in DOMAIN store'
                /\ Utf8Decode(store'[CacheKey(arg[p])].val) = resp[p].text
                /\ store'[CacheKey(arg[p])].ttl = TTL]_vars

\* the entry written for u has expired and a caller of get_page(u), the only
\* one running, has missed and stands before the network call
C3_Witness ==
    \E p \in Procs :
        /\ pc[p] = "http"
        /\ \A q \in Procs \ {p} : pc[q] = "idle"
        /\ written[arg[p]].set
        /\ written[arg[p]].body # <<>>
        /\ written[arg[p]].age >= TTL
        /\ CacheKey(arg[p]) \notin DOMAIN store

\* C4: the entry a miss wrote lives for 10 seconds: a read of cache:<u>
\* returns the written body at every instant before 10 seconds have passed
\* since the write, and nothing from then on, without any delete.
C4_EntryLivesForTTL ==
    \A u \in URLs :
        written[u].set =>
            LET got == RedisGet(store, CacheKey(u))
            IN  IF written[u].age < 10
                THEN /\ got # <<>>
                     /\ Utf8Decode(got[1]) = written[u].body
                     /\ store[CacheKey(u)].ttl = 10 - written[u].age
                ELSE got = <<>>

\* one entry is in its last second and still served, the other is gone
C4_Witness ==
    /\ written[A].set /\ written[A].age = 9
    /\ RedisGet(store, CacheKey(A)) = <<Utf8Encode(written[A].body)>>
    /\ written[A].body = <<233>>
    /\ written[B].set /\ written[B].age >= 10
    /\ RedisGet(store, CacheKey(B)) = <<>>

\* C8: on a miss, when the GET is answered with a status outside 2xx, the
\* call ends in a FetchError: it neither returns the body nor writes the
\* cache.
C8_Non2xxIsFetchError ==
    /\ \A p \in Procs :
          pc[p] = "setex" => resp[p].status \in 200..299
    /\ (last.op = "get_page" /\ last.status # 0 /\ last.status \notin 200..299)
          => last.kind = "FetchError"

\* C9: a get_page(u) that fails after its increment (the GET fails, or the
\* store fails at the lookup or at the write) changes nothing in the store
\* at the failing step, and up to there it has changed the store by exactly
\* one increment of the counter of u: no cache entry is created, replaced
\* or removed, and the counter is not touched a second time.
C9_FailedCallOnlyCounts ==
    [][\A p \in Procs :
          /\ (Ends(p) /\ pc[p] # "incr" /\ last'.kind # "return")
             => /\ store' = store
                /\ last'.op = "get_page" /\ last'.url = arg[p]
                /\ last'.kind \in {"FetchError", "StoreError"}
                /\ last'.log[1] = "incr"
                /\ \A i \in 2..Len(last'.log) : last'.log[i] # "incr"
          /\ (pc[p] = "incr" /\ pc'[p] = "lookup")
             => /\ GetCountReturn(store', arg[p])
                     = GetCountReturn(store, arg[p]) + 1
                /\ DOMAIN store' = DOMAIN store \cup {CountKey(arg[p])}
                /\ \A k \in DOMAIN store \ {CountKey(arg[p])} :
                      store'[k] = store[k]
          /\ (pc[p] \in {"lookup", "http"} /\ pc'[p] \in {"http", "setex"}
              /\ pc'[p] # pc[p])
             => store' = store]_vars

\* a first get_page(A) has just failed at the GET: the counter reads 1 and
\* there is no cache entry
C9_Witness ==
    /\ last.op = "get_page" /\ last.url = A /\ last.kind = "FetchError"
    /\ ncalls = 1
    /\ GetCountReturn(store, A) = 1
    /\ DOMAIN store = {CountKey(A)}

\* C10: in every get_page(u) the increment is the first thing done: the
\* call starts at the wrapper's increment without having touched the store,
\* the lookup and the network call only come after it, and the counter of u
\* went up by one before the call turns out a hit, a miss or a failure.
C10_IncrementFirst ==
    [][\A p \in Procs :
          /\ (pc[p] = "idle" /\ pc'[p] # "idle")
             => (pc'[p] = "incr" /\ log'[p] = <<>> /\ store' = store)
          /\ (pc[p] # "lookup" /\ pc'[p] = "lookup")
             => /\ pc[p] = "incr"
                /\ log'[p] = <<"incr">>
                /\ GetCountReturn(store', arg'[p])
                     = GetCountReturn(store, arg'[p]) + 1
          /\ (pc'[p] \in {"http", "setex"})
             => (Len(log'[p]) >= 2 /\ log'[p][1] = "incr"
                 /\ log'[p][2] = "get")
          /\ Ends(p)
             => (last'.log # <<>> /\ last'.log[1] = "incr"
                 /\ (pc[p] # "incr" => Len(last'.log) >= 2))]_vars

\* a hit has just been returned: its call incremented, then looked up
C10_Witness ==
    /\ last.op = "get_page" /\ last.kind = "return"
    /\ last.log = <<"incr", "get">>
    /\ GetCountReturn(store, last.url) = 2

\* the callers of get_page(u) whose increment is done and whose call is
\* still running (and was not overtaken by a reset)
Counted(u) ==
    {p \in Procs : /\ arg[p] = u /\ ~stale[p]
                   /\ pc[p] \in {"lookup", "http", "setex"}}

\* C11: when calls of get_page(u) run concurrently and u was never reset, no
\* increment is lost: get_count(u) is at every moment the number of calls
\* that have finished plus the number of running calls that have done their
\* increment, so that once N calls have completed it is exactly N.
C11_NoLostUpdate ==
    \A u \in URLs :
        wiped[u] = -1
            => GetCountReturn(store, u) = since[u] + Cardinality(Counted(u))

\* two calls of get_page(A) overlap after a first one has finished: both
\* have incremented, neither has returned, and the counter reads 3
C11_Witness ==
    /\ wiped[A] = -1
    /\ Counted(A) = Procs
    /\ since[A] = 1
    /\ GetCountReturn(store, A) = 3

\* C12: concurrent calls of get_page(u) that both saw a miss are not merged.
\* A caller that saw a miss goes on to the network GET whatever has been
\* cached meanwhile, and every response it receives it writes: the write the
\* store serves replaces the entry under cache:<u>, live or not, by the
\* caller's own body with the full TTL, so that the entry is the one of the
\* later write and expires TTL after it.
C12_LaterWriteWins ==
    [][\A p \in Procs :
          /\ (pc[p] = "http" /\ pc'[p] # "http")
             => \/ pc'[p] = "setex" /\ Fetched(log'[p])
                \/ Ends(p) /\ last'.kind = "FetchError" /\ Fetched(last'.log)
          /\ (pc[p] = "setex" /\ pc'[p] # "setex")
             => /\ Ends(p) /\ Fetched(last'.log)
                /\ last'.kind \in {"return", "StoreError"}
                /\ last'.kind = "return"
                   => /\ store'[CacheKey(arg[p])]
                          = [val |-> Utf8Encode(resp[p].text), ttl |-> TTL]
                      /\ written'[arg[p]].body = resp[p].text
                      /\ written'[arg[p]].age = 0
                      /\ last'.body = resp[p].text]_vars

\* the only two calls of get_page(A) both missed and both fetched: the
\* second one has just written its page over the live entry the first one
\* wrote 5 s before, and the entry has the second body and the full TTL
C12_Witness ==
    /\ ncalls = 2 /\ invoked = {A} /\ since[A] = 2 /\ InFlight(A) = {}
    /\ last.op = "get_page" /\ last.url = A /\ last.kind = "return"
    /\ Fetched(last.log) /\ last.body = <<233>>
    /\ replaced = [val |-> Utf8Encode(<<97>>), ttl |-> 5]
    /\ store[CacheKey(A)] = [val |-> Utf8Encode(<<233>>), ttl |-> TTL]
    /\ written[A] = [set |-> TRUE, body |-> <<233>>, age |-> 0]

\* C13: the counter of u is a natural number that changes in two ways
\* only: it goes up by exactly one in the increment step of a get_page(u),
\* and it goes to 0 when reset_count(u) removes it.  It never goes down
\* otherwise, and time passing never changes it: the key count:<u> carries
\* no expiry.
C13_CounterSteps ==
    [][\A u \in URLs :
          LET key == CountKey(u)
              c == GetCountReturn(store, u)
              d == GetCountReturn(store', u)
          IN  /\ key \in DOMAIN store' => store'[key].ttl = NoExpiry
              /\ EntryAt(store', key) # EntryAt(store, key)
                 => /\ c \in Nat /\ d \in Nat /\ d # c
                    /\ \/ /\ d = c + 1
                          /\ \E p \in Procs : /\ pc[p] = "incr" /\ arg[p] = u
                                              /\ pc'[p] = "lookup"
                       \/ d = 0 /\ ResetCount(u)
                    /\ d < c => ResetCount(u)
                    /\ ~(\E t \in TimeSteps : Tick(t))]_vars

\* three calls of get_page(A) were counted, and the counter still reads 3
\* when the cache entry written by one of them has expired
C13_Witness ==
    /\ wiped[A] = -1 /\ InFlight(A) = {}
    /\ GetCountReturn(store, A) = 3
    /\ written[A].set /\ written[A].age = TTL
    /\ CacheKey(A) \notin DOMAIN store
    /\ store[CountKey(A)].ttl = NoExpiry

\* key k is present after the step exactly if it was before, with the same
\* value and the same seconds left
SameAt(k) ==
    /\ (k \in DOMAIN store') = (k \in DOMAIN store)
    /\ k \in DOMAIN store => store'[k] = store[k]

\* the step is one of a call of get_page(u): its start, one of its store
\* or network commands, or its end
StepOfFetch(u) ==
    \E p \in Procs : pc'[p] # pc[p] /\ (arg[p] = u \/ arg'[p] = u)

\* C14: operations on u leave the other URLs alone: a step of get_page(u)
\* and reset_count(u) leave the counter and the cache entry of every other
\* URL v as they are; get_count(u) changes nothing in the store at all; and
\* no cache key cache:<u> is ever a counter key count:<w>.
C14_OtherUrlsUntouched ==
    [][/\ \A u, w \in URLs : CacheKey(u) # CountKey(w)
       /\ store' # store
          => /\ \A u \in URLs : ~GetCount(u)
             /\ \A u \in URLs : \A v \in URLs \ {u} :
                   (StepOfFetch(u) \/ (pc' = pc /\ ResetCount(u)))
                      => SameAt(CountKey(v)) /\ SameAt(CacheKey(v))]_vars

\* A was fetched twice and then reset while B is counted and cached: the
\* counter of A is gone, counter and entry of B are as the call of
\* get_page(B) left them
C14_Witness ==
    /\ ncalls = 3 /\ wiped[A] >= 2 /\ wiped[B] = -1
    /\ CountKey(A) \notin DOMAIN store
    /\ CacheKey(A) \in DOMAIN store
    /\ GetCountReturn(store, B) = 1 /\ since[B] = 1
    /\ CacheKey(B) \in DOMAIN store
    /\ store[CacheKey(B)] = [val |-> Utf8Encode(<<98>>), ttl |-> TTL]

\* C15: reset_count(u) leaves the cache entry of u as it is, body and
\* seconds left; and a get_page(u) called after the reset that looks the
\* cache up before the TTL of the written entry has elapsed is served from
\* the cache without a network call, while it is counted from 0 again: the
\* first such call reads a counter of 1.
C15_ResetKeepsCache ==
    [][/\ \A u \in URLs :
             (pc' = pc /\ ResetCount(u)) => SameAt(CacheKey(u))
       /\ \A p \in Procs :
             (/\ LookupAnswered(p)
              /\ wiped[arg[p]] >= 0 /\ ~stale[p]
              /\ written[arg[p]].set
              /\ written[arg[p]].age < TTL)
             => /\ pc'[p] = "idle"
                /\ last'.kind = "return"
                /\ last'.body = written[arg[p]].body
                /\ ~Fetched(last'.log)
                /\ (since[arg[p]] = 0 /\ Counted(arg[p]) = {p})
                   => GetCountReturn(store', arg[p]) = 1]_vars

\* C16: a hit does not renew the expiry.  The step that serves get_page(u)
\* from the cache writes nothing, so a present entry always has TTL minus
\* the time since its write left, however many hits it has served; when TTL
\* has passed since the write the entry is gone, and the next lookup of a
\* get_page(u) is a miss that goes on to the network.
C16_HitsDoNotRefresh ==
    [][/\ \A p \in Procs :
             /\ (pc[p] = "lookup" /\ Ends(p) /\ last'.kind = "return")
                => (store' = store /\ written' = written)
             /\ (LookupAnswered(p) /\ written[arg[p]].set
                                   /\ written[arg[p]].age = TTL)
                => pc'[p] = "http"
       /\ \A u \in URLs :
             /\ CacheKey(u) \in DOMAIN store'
                => /\ written'[u].set /\ written'[u].age < TTL
                   /\ store'[CacheKey(u)].ttl = TTL - written'[u].age
             /\ (written'[u].set /\ written'[u].age = TTL)
                => CacheKey(u) \notin DOMAIN store']_vars

\* the entry of A has just served its second hit, 9 s after the miss that
\* wrote it, and has 1 s left
C16_Witness ==
    /\ last.op = "get_page" /\ last.url = A /\ last.kind = "return"
    /\ ~Fetched(last.log) /\ last.body = <<97>>
    /\ ncalls = 3 /\ since[A] = 3 /\ wiped[A] = -1
    /\ written[A] = [set |-> TRUE, body |-> <<97>>, age |-> 9]
    /\ store[CacheKey(A)].ttl = 1

\* C17: an entry present under cache:<u> holds a body that a GET of u
\* returned and that a miss of get_page(u) wrote less than TTL ago; and
\* every get_page(u) that returns returns a body of u: the one it has just
\* fetched and written, or the one written for u within the last TTL --
\* never the body of another URL.
C17_CachedBodyIsFresh ==
    /\ \A u \in URLs :
          CacheKey(u) \in DOMAIN store
             => /\ WellFormed(store[CacheKey(u)].val)
                /\ Utf8Decode(store[CacheKey(u)].val) \in Pages[u]
                /\ written[u].set /\ written[u].age < TTL
                /\ Utf8Decode(store[CacheKey(u)].val) = written[u].body
    /\ (last.op = "get_page" /\ last.kind = "return")
          => /\ last.body \in Pages[last.url]
             /\ \A v \in URLs \ {last.url} : last.body \notin Pages[v]
             /\ written[last.url].set
             /\ last.body = written[last.url].body
             /\ IF Fetched(last.log)
                THEN written[last.url].age = 0
                ELSE written[last.url].age < TTL

\* both URLs are cached, and a get_page(A) has just been served from the
\* cache the two-byte entry of A decoded back to the one character fetched
C17_Witness ==
    /\ last.op = "get_page" /\ last.url = A /\ last.kind = "return"
    /\ ~Fetched(last.log) /\ last.body = <<233>>
    /\ store[CacheKey(A)].val = <<195, 169>>
    /\ CacheKey(B) \in DOMAIN store
    /\ store[CacheKey(B)].val = <<98>>

=============================================================================
